---- MODULE Spec2Model ----
(***************************************************************************)
(* Model of xobs/traceswotest (src/src/main.rs): SWO trace bring-up        *)
(* (swo_setup) followed by the endless ITM stimulus-port write loop of     *)
(* main.                                                                   *)
(*                                                                         *)
(* A 32-bit register value is the set of its set bit positions (0..31),    *)
(* so that bitwise |, & and ! are union, intersection and complement and   *)
(* no value exceeds the checker's integer range.                           *)
(***************************************************************************)
EXTENDS Integers, Sequences, FiniteSets, TLC

(* ------------------------------ bounds --------------------------------- *)
\* clock frequencies tried: k MHz, k MHz + 1 and (k+1) MHz - 1 for k in 0..MaxMHz
MaxMHz == 2
\* most consecutive "FIFO full" reports of the mock stimulus FIFO
MaxFull == 2
\* longest byte slice handed to the writer when it is exercised on its own
MaxLen == 5

(* --------------------------- 32-bit values ----------------------------- *)
BitPos == 0..31

Pow2(k) == 2^k

\* bits of a number 0 <= n < 2^31
Bits(n) == {i \in 0..30 : (n \div Pow2(i)) % 2 = 1}

Not32(v) == BitPos \ v

Or32(v, w) == v \cup w

And32(v, w) == v \cap w

Xor32(v, w) == (v \ w) \cup (w \ v)

Shl32(v, k) == {i + k : i \in v} \cap BitPos

\* the u32 whose upper and lower halfwords are hi and lo
Word32(hi, lo) == Or32(Shl32(Bits(hi), 16), Bits(lo))

\* n as a u32 (two's complement for negative n), -2^31 <= n < 2^31
ToU32(n) == IF n >= 0 THEN Bits(n) ELSE Not32(Bits(-n - 1))

(* --------------------------- constants --------------------------------- *)
SWO_BAUDRATE == 1 * 1000 * 1000
\* 0xc5acce55
ARM_LAR_ACCESS_ENABLE == Word32(50604, 52821)
SCS_DEMCR == "SCS_DEMCR"
SCS_DEMCR_TRCENA == Shl32(Bits(1), 24)
TPIU_LAR == "TPIU_LAR"
TPIU_CSPSR == "TPIU_CSPSR"
TPIU_ACPR == "TPIU_ACPR"
TPIU_SPPR == "TPIU_SPPR"
TPIU_FFCR == "TPIU_FFCR"
DWT_LAR == "DWT_LAR"
DWT_CTRL == "DWT_CTRL"
ITM_LAR == "ITM_LAR"
ITM_TPR == "ITM_TPR"
ITM_TCR == "ITM_TCR"
ITM_TCR_SWOENA == Shl32(Bits(1), 4)
ITM_TCR_TXENA == Shl32(Bits(1), 3)
ITM_TCR_SYNCENA == Shl32(Bits(1), 2)
ITM_TCR_ITMENA == Shl32(Bits(1), 0)
ITM_TER == "ITM_TER"
DBGMCU_CR == "DBGMCU_CR"
\* 0x00000020
DBGMCU_CR_TRACE_IOEN == Bits(32)
\* 0x000000C0
DBGMCU_CR_TRACE_MODE_MASK == Bits(192)
DBGMCU_CR_TRACE_MODE_ASYNC == Bits(0)
TPIU_FFCR_ENFCONT == Shl32(Bits(1), 1)
TPIU_SPPR_ASYNC_MANCHESTER == Bits(1)

Regs == {SCS_DEMCR, TPIU_LAR, TPIU_CSPSR, TPIU_ACPR, TPIU_SPPR, TPIU_FFCR,
         DWT_LAR, DWT_CTRL, ITM_LAR, ITM_TPR, ITM_TCR, ITM_TER, DBGMCU_CR}

(* ------------------- the lock-gated register file ---------------------- *)
Blocks == {"TPIU", "DWT", "ITM"}

LarOf(blk) == CASE blk = "TPIU" -> TPIU_LAR
                [] blk = "DWT" -> DWT_LAR
                [] blk = "ITM" -> ITM_LAR

ConfigRegs(blk) == CASE blk = "TPIU" -> {TPIU_CSPSR, TPIU_ACPR, TPIU_SPPR, TPIU_FFCR}
                     [] blk = "DWT" -> {DWT_CTRL}
                     [] blk = "ITM" -> {ITM_TPR, ITM_TCR, ITM_TER}

\* a block is unlocked when its unlock register has received exactly the key
Unlocked(rs, blk) == rs[LarOf(blk)] = ARM_LAR_ACCESS_ENABLE

\* a register file with lock access control ignores a write to a
\* configuration register of a locked block
Ignored(g, rs, r) == g /\ \E blk \in Blocks : r \in ConfigRegs(blk) /\ ~Unlocked(rs, blk)

Store(g, rs, r, v) == IF Ignored(g, rs, r) THEN rs ELSE [rs EXCEPT ![r] = v]

(* ------------------------------ inputs --------------------------------- *)
Freqs == UNION {{k * SWO_BAUDRATE, k * SWO_BAUDRATE + 1, (k + 1) * SWO_BAUDRATE - 1} :
                k \in 0..MaxMHz} \cup {8000000, 72000000}

\* the frequencies main's clock set-up is tried with
MainFreqs == {k * SWO_BAUDRATE : k \in 0..MaxMHz} \cup {8000000}

\* 0xa5a5a5a5, a mixed pattern
Mixed == Word32(42405, 42405)

\* byte values used in slices handed to the writer on its own
ByteVals == {0, 1, 255}

VARIABLES
  pc,               \* position of the single execution context
  ret,              \* where swo_setup returns to
  regs,             \* the memory-mapped registers
  gated,            \* TRUE when the register file enforces the unlock registers
  omit,             \* the block whose unlock write a mock run leaves out, or "none"
  clocks,           \* the frozen clock configuration (hclk in Hz)
  clock_frequency,  \* swo_setup's local
  divisor,          \* swo_setup's local
  log,              \* register writes issued by the current swo_setup call
  setups,           \* number of swo_setup calls begun
  snap,             \* test driver: the registers after the first call
  cpTaken,          \* cortex_m::Peripherals already taken
  dpTaken,          \* pac::Peripherals already taken
  takes,            \* number of successful acquisitions <<core, device>>
  b,                \* main's loop counter (u8)
  wport,            \* write_all: the stimulus port
  winput,           \* write_all: the slice passed in
  wbuf,             \* write_all: bytes not yet pushed
  wret,             \* write_all: where it returns to
  polls,            \* write_all: FIFO-ready polls made for the current word
  ready,            \* write_all: what the last poll reported
  pushed,           \* words pushed by the current write_all call
  sent,             \* words pushed since the loop counter last changed
  fifo_busy,        \* mock FIFO: polls that will still report "full"
  fifo_stuck,       \* mock FIFO: it never drains again
  fifo_n            \* mock FIFO: "full" reports it was set to give for this word

swoVars == <<regs, clock_frequency, divisor, log>>

envVars == <<gated, omit>>

testVars == <<snap>>

ownVars == <<cpTaken, dpTaken, takes>>

writerVars == <<wport, winput, wbuf, wret, polls, ready, pushed, sent, fifo_busy,
               fifo_n, fifo_stuck>>

vars == <<pc, ret, regs, gated, omit, clocks, clock_frequency, divisor, log,
          setups, snap, cpTaken, dpTaken, takes, b, wport, winput, wbuf,
          wret, polls, ready, pushed, sent, fifo_busy, fifo_n, fifo_stuck>>

\* everything a statement of swo_setup leaves alone
SwoFrame == UNCHANGED <<ret, envVars, clocks, setups, testVars, ownVars, b, writerVars>>

(* ----------------------------- swo_setup ------------------------------- *)
\* r.write_volatile(v) followed by the next statement
write_volatile(r, v, next) ==
  /\ regs' = Store(gated, regs, r, v)
  /\ log' = Append(log, [reg |-> r, val |-> v])
  /\ pc' = next

\* the unlock write of a block; a mock run that omits it issues nothing
unlock(blk, next) ==
  IF omit = blk
    THEN pc' = next /\ UNCHANGED <<regs, log>>
    ELSE write_volatile(LarOf(blk), ARM_LAR_ACCESS_ENABLE, next)

\* variant: DEMCR written back without TRCENA OR-ed in
swo_setup_L61_noTrcena ==
  /\ pc = "L61"
  /\ write_volatile(SCS_DEMCR, regs[SCS_DEMCR], "L64")
  /\ UNCHANGED <<clock_frequency, divisor>>
  /\ SwoFrame

\* SCS_DEMCR |= TRCENA
swo_setup_L61 ==
  /\ pc = "L61"
  /\ write_volatile(SCS_DEMCR, Or32(regs[SCS_DEMCR], SCS_DEMCR_TRCENA), "L64")
  /\ UNCHANGED <<clock_frequency, divisor>>
  /\ SwoFrame

swo_setup_L64 ==
  /\ pc = "L64"
  /\ clock_frequency' = clocks
  /\ pc' = "L65"
  /\ UNCHANGED <<regs, divisor, log>>
  /\ SwoFrame

\* variant: the divisor without the "- 1"
swo_setup_L65_noMinus ==
  /\ pc = "L65"
  /\ divisor' = ToU32(clock_frequency \div SWO_BAUDRATE)
  /\ pc' = "L67"
  /\ UNCHANGED <<regs, clock_frequency, log>>
  /\ SwoFrame

\* variant: a saturating subtraction, 0 when the quotient is 0
swo_setup_L65_saturating ==
  /\ pc = "L65"
  /\ divisor' = IF clock_frequency \div SWO_BAUDRATE >= 1
                  THEN ToU32((clock_frequency \div SWO_BAUDRATE) - 1) ELSE ToU32(0)
  /\ pc' = "L67"
  /\ UNCHANGED <<regs, clock_frequency, log>>
  /\ SwoFrame

\* (clock_frequency / SWO_BAUDRATE) - 1 on u32: with overflow checks the
\* subtraction panics when the quotient is 0, without them it wraps
swo_setup_L65 ==
  /\ pc = "L65"
  /\ \/ /\ clock_frequency \div SWO_BAUDRATE >= 1
        /\ divisor' = ToU32((clock_frequency \div SWO_BAUDRATE) - 1)
        /\ pc' = "L67"
     \/ /\ clock_frequency \div SWO_BAUDRATE < 1
        /\ divisor' = ToU32((clock_frequency \div SWO_BAUDRATE) - 1)
        /\ pc' = "L67"
     \/ /\ clock_frequency \div SWO_BAUDRATE < 1
        /\ divisor' = divisor
        /\ pc' = "halt"
  /\ UNCHANGED <<regs, clock_frequency, log>>
  /\ SwoFrame

swo_setup_L67 ==
  /\ pc = "L67"
  /\ unlock("TPIU", "L68")
  /\ UNCHANGED <<clock_frequency, divisor>>
  /\ SwoFrame

swo_setup_L68 ==
  /\ pc = "L68"
  /\ write_volatile(TPIU_CSPSR, Bits(1), "L69")
  /\ UNCHANGED <<clock_frequency, divisor>>
  /\ SwoFrame

swo_setup_L69 ==
  /\ pc = "L69"
  /\ write_volatile(TPIU_ACPR, divisor, "L70")
  /\ UNCHANGED <<clock_frequency, divisor>>
  /\ SwoFrame

swo_setup_L70 ==
  /\ pc = "L70"
  /\ write_volatile(TPIU_SPPR, TPIU_SPPR_ASYNC_MANCHESTER, "L72")
  /\ UNCHANGED <<clock_frequency, divisor>>
  /\ SwoFrame

\* variant: ENFCONT toggled instead of cleared
swo_setup_L72_toggle ==
  /\ pc = "L72"
  /\ write_volatile(TPIU_FFCR, Xor32(regs[TPIU_FFCR], TPIU_FFCR_ENFCONT), "L75")
  /\ UNCHANGED <<clock_frequency, divisor>>
  /\ SwoFrame

swo_setup_L72 ==
  /\ pc = "L72"
  /\ write_volatile(TPIU_FFCR, And32(regs[TPIU_FFCR], Not32(TPIU_FFCR_ENFCONT)), "L75")
  /\ UNCHANGED <<clock_frequency, divisor>>
  /\ SwoFrame

\* variant: the key written to the formatter's unlock register once more
swo_setup_L75_wrongLar ==
  /\ pc = "L75"
  /\ write_volatile(TPIU_LAR, ARM_LAR_ACCESS_ENABLE, "L76")
  /\ UNCHANGED <<clock_frequency, divisor>>
  /\ SwoFrame

swo_setup_L75 ==
  /\ pc = "L75"
  /\ unlock("DWT", "L76")
  /\ UNCHANGED <<clock_frequency, divisor>>
  /\ SwoFrame

\* variant: DWT_CTRL overwritten with the pattern instead of OR-ed
swo_setup_L76_overwrite ==
  /\ pc = "L76"
  /\ write_volatile(DWT_CTRL, Bits(1022), "L78")
  /\ UNCHANGED <<clock_frequency, divisor>>
  /\ SwoFrame

\* DWT_CTRL |= 0x000003fe
swo_setup_L76 ==
  /\ pc = "L76"
  /\ write_volatile(DWT_CTRL, Or32(regs[DWT_CTRL], Bits(1022)), "L78")
  /\ UNCHANGED <<clock_frequency, divisor>>
  /\ SwoFrame

\* variant: a key with its last digit mistyped (0xc5acce54)
swo_setup_L78_typo ==
  /\ pc = "L78"
  /\ write_volatile(ITM_LAR, Word32(50604, 52820), "L80")
  /\ UNCHANGED <<clock_frequency, divisor>>
  /\ SwoFrame

swo_setup_L78 ==
  /\ pc = "L78"
  /\ unlock("ITM", "L80")
  /\ UNCHANGED <<clock_frequency, divisor>>
  /\ SwoFrame

\* ITM_TPR = 0x0000000f
swo_setup_L80 ==
  /\ pc = "L80"
  /\ write_volatile(ITM_TPR, Bits(15), "L81")
  /\ UNCHANGED <<clock_frequency, divisor>>
  /\ SwoFrame

ITM_TCR_VALUE ==
  Or32(Or32(Or32(Or32(ITM_TCR_ITMENA, ITM_TCR_SYNCENA), ITM_TCR_TXENA), ITM_TCR_SWOENA),
       Shl32(Bits(1), 16))

swo_setup_L81 ==
  /\ pc = "L81"
  /\ write_volatile(ITM_TCR, ITM_TCR_VALUE, "L84")
  /\ UNCHANGED <<clock_frequency, divisor>>
  /\ SwoFrame

\* variant: channel 1 enabled instead of channel 0
swo_setup_L84_channel1 ==
  /\ pc = "L84"
  /\ write_volatile(ITM_TER, Shl32(Bits(1), 1), "L87")
  /\ UNCHANGED <<clock_frequency, divisor>>
  /\ SwoFrame

\* variant: channel 0 OR-ed into the mask
swo_setup_L84_or ==
  /\ pc = "L84"
  /\ write_volatile(ITM_TER, Or32(regs[ITM_TER], Bits(1)), "L87")
  /\ UNCHANGED <<clock_frequency, divisor>>
  /\ SwoFrame

swo_setup_L84 ==
  /\ pc = "L84"
  /\ write_volatile(ITM_TER, Bits(1), "L87")
  /\ UNCHANGED <<clock_frequency, divisor>>
  /\ SwoFrame

\* variant: the mode mask applied without the complement
swo_setup_L87_noNot ==
  /\ pc = "L87"
  /\ write_volatile(DBGMCU_CR, And32(regs[DBGMCU_CR], DBGMCU_CR_TRACE_MODE_MASK), "L88")
  /\ UNCHANGED <<clock_frequency, divisor>>
  /\ SwoFrame

swo_setup_L87 ==
  /\ pc = "L87"
  /\ write_volatile(DBGMCU_CR, And32(regs[DBGMCU_CR], Not32(DBGMCU_CR_TRACE_MODE_MASK)), "L88")
  /\ UNCHANGED <<clock_frequency, divisor>>
  /\ SwoFrame

swo_setup_L88 ==
  /\ pc = "L88"
  /\ write_volatile(DBGMCU_CR,
                    Or32(Or32(regs[DBGMCU_CR], DBGMCU_CR_TRACE_IOEN), DBGMCU_CR_TRACE_MODE_ASYNC),
                    "L92")
  /\ UNCHANGED <<clock_frequency, divisor>>
  /\ SwoFrame

\* return to the caller
swo_setup_L92 ==
  /\ pc = "L92"
  /\ pc' = ret
  /\ UNCHANGED swoVars
  /\ SwoFrame

swo_setup ==
  \/ swo_setup_L61 \/ swo_setup_L64 \/ swo_setup_L65 \/ swo_setup_L67
  \/ swo_setup_L68 \/ swo_setup_L69 \/ swo_setup_L70 \/ swo_setup_L72
  \/ swo_setup_L75 \/ swo_setup_L76 \/ swo_setup_L78 \/ swo_setup_L80
  \/ swo_setup_L81 \/ swo_setup_L84 \/ swo_setup_L87 \/ swo_setup_L88
  \/ swo_setup_L92

\* entering swo_setup(&clocks) from a call site that resumes at r
call_swo_setup(r) ==
  /\ pc' = "L61"
  /\ ret' = r
  /\ setups' = setups + 1
  /\ log' = <<>>
  /\ UNCHANGED <<regs, clock_frequency, divisor>>

(* ------------------------ write_all (StimulusWriter) ------------------- *)
\* variant: a short final group padded with all-ones bytes
PackWord_padFF(bytes) == [i \in 1..4 |-> IF i <= Len(bytes) THEN bytes[i] ELSE 255]

\* the next group of up to four bytes as one word, missing bytes zero
PackWord(bytes) == [i \in 1..4 |-> IF i <= Len(bytes) THEN bytes[i] ELSE 0]

DropWord(bytes) == IF Len(bytes) <= 4 THEN <<>> ELSE SubSeq(bytes, 5, Len(bytes))

\* the bytes of a sequence of words, in order
RECURSIVE Unpack(_)
Unpack(ws) == IF ws = <<>> THEN <<>> ELSE ws[1] \o Unpack(Tail(ws))

\* entering write_all(port, bytes) from a call site that resumes at r
call_write_all(port, bytes, r) ==
  /\ wport' = port
  /\ winput' = bytes
  /\ wbuf' = bytes
  /\ wret' = r
  /\ pushed' = <<>>
  /\ polls' = 0
  /\ ready' = FALSE
  /\ pc' = "W_loop"

WriterFrame == UNCHANGED <<ret, swoVars, envVars, clocks, setups, testVars, ownVars, b>>

\* more bytes: start polling for the next word; none left: return
write_all_loop ==
  /\ pc = "W_loop"
  /\ IF wbuf = <<>> THEN pc' = wret ELSE pc' = "W_poll"
  /\ polls' = 0
  /\ ready' = FALSE
  /\ UNCHANGED <<wport, winput, wbuf, wret, pushed, sent, fifo_busy, fifo_n, fifo_stuck>>
  /\ WriterFrame

\* what the port's FIFO-ready status reads as
is_fifo_ready == ~fifo_stuck /\ fifo_busy = 0

\* variant: the wait gives up after MaxFull + 1 polls and returns
write_all_poll_timeout ==
  /\ pc = "W_poll"
  /\ ready' = is_fifo_ready
  /\ polls' = IF polls <= MaxFull THEN polls + 1 ELSE polls
  /\ fifo_busy' = IF fifo_busy > 0 THEN fifo_busy - 1 ELSE fifo_busy
  /\ pc' = IF is_fifo_ready THEN "W_push" ELSE IF polls > MaxFull THEN wret ELSE "W_poll"
  /\ UNCHANGED <<wport, winput, wbuf, wret, pushed, sent, fifo_n, fifo_stuck>>
  /\ WriterFrame

\* variant: a single poll, then the push whatever it reported
write_all_poll_once ==
  /\ pc = "W_poll"
  /\ ready' = is_fifo_ready
  /\ polls' = IF polls <= MaxFull THEN polls + 1 ELSE polls
  /\ fifo_busy' = IF fifo_busy > 0 THEN fifo_busy - 1 ELSE fifo_busy
  /\ pc' = "W_push"
  /\ UNCHANGED <<wport, winput, wbuf, wret, pushed, sent, fifo_n, fifo_stuck>>
  /\ WriterFrame

\* one poll of the FIFO-ready status; spin while it reports full
write_all_poll ==
  /\ pc = "W_poll"
  /\ ready' = is_fifo_ready
  /\ polls' = IF polls <= MaxFull THEN polls + 1 ELSE polls
  /\ fifo_busy' = IF fifo_busy > 0 THEN fifo_busy - 1 ELSE fifo_busy
  /\ pc' = IF is_fifo_ready THEN "W_push" ELSE "W_poll"
  /\ UNCHANGED <<wport, winput, wbuf, wret, pushed, sent, fifo_n, fifo_stuck>>
  /\ WriterFrame

\* push one word; the FIFO then reports full for some number of polls, or for good
write_all_push ==
  /\ pc = "W_push"
  /\ pushed' = Append(pushed, PackWord(wbuf))
  /\ sent' = Append(sent, [port |-> wport, word |-> PackWord(wbuf)])
  /\ wbuf' = DropWord(wbuf)
  /\ \E n \in 0..MaxFull : fifo_busy' = n /\ fifo_n' = n
  /\ fifo_stuck' \in BOOLEAN
  /\ pc' = "W_loop"
  /\ UNCHANGED <<wport, winput, wret, polls, ready>>
  /\ WriterFrame

write_all == write_all_loop \/ write_all_poll \/ write_all_push

(* -------------------------------- main --------------------------------- *)
\* Peripherals::take(): Some exactly when not taken before
take(taken) == ~taken

MainFrame == UNCHANGED <<envVars, testVars>>

\* variant: the result of take() used without the unwrap check
main_L103_unchecked ==
  /\ pc = "L103"
  /\ cpTaken' = TRUE
  /\ takes' = [takes EXCEPT ![1] = @ + 1]
  /\ pc' = "L105"
  /\ UNCHANGED <<ret, swoVars, clocks, setups, dpTaken, b, writerVars>>
  /\ MainFrame

\* cortex_m::Peripherals::take().unwrap(): None panics, and panic_halt halts
main_L103 ==
  /\ pc = "L103"
  /\ IF take(cpTaken)
       THEN /\ cpTaken' = TRUE
            /\ takes' = [takes EXCEPT ![1] = @ + 1]
            /\ pc' = "L105"
       ELSE /\ pc' = "halt"
            /\ UNCHANGED <<cpTaken, takes>>
  /\ UNCHANGED <<ret, swoVars, clocks, setups, dpTaken, b, writerVars>>
  /\ MainFrame

\* pac::Peripherals::take().unwrap()
main_L105 ==
  /\ pc = "L105"
  /\ IF take(dpTaken)
       THEN /\ dpTaken' = TRUE
            /\ takes' = [takes EXCEPT ![2] = @ + 1]
            /\ pc' = "L110"
       ELSE /\ pc' = "halt"
            /\ UNCHANGED <<dpTaken, takes>>
  /\ UNCHANGED <<ret, swoVars, clocks, setups, cpTaken, b, writerVars>>
  /\ MainFrame

\* constrain flash and rcc, freeze the clocks: hclk is whatever the clock tree gives
main_L110 ==
  /\ pc = "L110"
  /\ clocks' \in MainFreqs
  /\ pc' = "L117"
  /\ UNCHANGED <<ret, swoVars, setups, ownVars, b, writerVars>>
  /\ MainFrame

main_L117 ==
  /\ pc = "L117"
  /\ call_swo_setup("L120")
  /\ UNCHANGED <<clocks, ownVars, b, writerVars>>
  /\ MainFrame

\* lines 120-127, gpio split, stimulus port 0, led and the SysTick counter,
\* touch no state kept here.  Line 128, timer.start(1.Hz()).unwrap(): the
\* Result is decided in stm32f1xx_hal, so either outcome may occur; Ok goes on
\* to line 131, Err panics and panic_halt halts.
main_L120 ==
  /\ pc = "L120"
  /\ \/ pc' = "L131"
     \/ pc' = "halt"
  /\ UNCHANGED <<ret, swoVars, clocks, setups, ownVars, b, writerVars>>
  /\ MainFrame

main_L131 ==
  /\ pc = "L131"
  /\ b' = 128
  /\ pc' = "L134"
  /\ UNCHANGED <<ret, swoVars, clocks, setups, ownVars, writerVars>>
  /\ MainFrame

\* variant: the loop opened above the call of swo_setup
main_L136_loopsToSetup ==
  /\ pc = "L136"
  /\ b' = (b + 1) % 256
  /\ pc' = "L117"
  /\ sent' = <<>>
  /\ UNCHANGED <<ret, swoVars, clocks, setups, ownVars, wport, winput, wbuf, wret, polls,
                 ready, pushed, fifo_busy, fifo_n, fifo_stuck>>
  /\ MainFrame

\* variant: saturating instead of wrapping increment
main_L136_saturating ==
  /\ pc = "L136"
  /\ b' = IF b = 255 THEN 255 ELSE b + 1
  /\ pc' = "L134"
  /\ sent' = <<>>
  /\ UNCHANGED <<ret, swoVars, clocks, setups, ownVars, wport, winput, wbuf, wret, polls,
                 ready, pushed, fifo_busy, fifo_n, fifo_stuck>>
  /\ MainFrame

\* first write_all(stim, &[b, b, b, b]) of an iteration
main_L134 ==
  /\ pc = "L134"
  /\ call_write_all(0, <<b, b, b, b>>, "L135")
  /\ UNCHANGED <<ret, swoVars, clocks, setups, ownVars, b, sent, fifo_busy, fifo_n, fifo_stuck>>
  /\ MainFrame

main_L135 ==
  /\ pc = "L135"
  /\ call_write_all(0, <<b, b, b, b>>, "L136")
  /\ UNCHANGED <<ret, swoVars, clocks, setups, ownVars, b, sent, fifo_busy, fifo_n, fifo_stuck>>
  /\ MainFrame

\* b = b.wrapping_add(1), then the next iteration
main_L136 ==
  /\ pc = "L136"
  /\ b' = (b + 1) % 256
  /\ pc' = "L134"
  /\ sent' = <<>>
  /\ UNCHANGED <<ret, swoVars, clocks, setups, ownVars, wport, winput, wbuf, wret, polls,
                 ready, pushed, fifo_busy, fifo_n, fifo_stuck>>
  /\ MainFrame

\* panic_halt: loop forever
halt ==
  /\ pc = "halt"
  /\ UNCHANGED vars

main ==
  \/ main_L103 \/ main_L105 \/ main_L110 \/ main_L117 \/ main_L120
  \/ main_L131 \/ main_L134 \/ main_L135 \/ main_L136

(* --------------------------- initial states ---------------------------- *)
RmwRegs == {SCS_DEMCR, TPIU_FFCR, DWT_CTRL, DBGMCU_CR}

LarRegs == {TPIU_LAR, DWT_LAR, ITM_LAR}

\* a register file at reset or as earlier code left it: p1 in the registers
\* swo_setup reads and modifies, p2 in those it overwrites, p3 in the unlock
\* registers
RegFile(p1, p2, p3) ==
  [r \in Regs |-> IF r \in RmwRegs THEN p1 ELSE IF r \in LarRegs THEN p3 ELSE p2]

RegFiles ==
  {RegFile(p1, p2, p3) :
     p1 \in {{}, BitPos, Mixed, Not32(Mixed)},
     p2 \in {{}, BitPos, Mixed},
     p3 \in {{}, ARM_LAR_ACCESS_ENABLE}}

MainRegFiles ==
  {RegFile(p, p, p3) : p \in {{}, BitPos}, p3 \in {{}, ARM_LAR_ACCESS_ENABLE}}

InitCommon ==
  /\ ret = "none"
  /\ clock_frequency = 0
  /\ divisor = {}
  /\ log = <<>>
  /\ setups = 0
  /\ snap = regs
  /\ takes = <<0, 0>>
  /\ b = 0
  /\ wport = 0
  /\ winput = <<>>
  /\ wbuf = <<>>
  /\ wret = "none"
  /\ polls = 0
  /\ ready = FALSE
  /\ pushed = <<>>
  /\ sent = <<>>
  /\ fifo_n = fifo_busy
  /\ fifo_stuck = FALSE

\* main entered: clocks not yet frozen
InitMain ==
  /\ pc = "L103"
  /\ regs \in MainRegFiles
  /\ gated \in BOOLEAN
  /\ omit = "none"
  /\ clocks = 0
  /\ fifo_busy \in 0..MaxFull
  /\ InitCommon

\* the program at reset: nothing taken yet
Init ==
  /\ InitMain
  /\ cpTaken = FALSE
  /\ dpTaken = FALSE

Next == main \/ swo_setup \/ write_all \/ halt

Spec == Init /\ [][Next]_vars

\* the program at reset on a register file at its reset values with lock
\* access control, the FIFO empty
InitLive ==
  /\ pc = "L103"
  /\ regs = RegFile({}, {}, {})
  /\ gated = TRUE
  /\ omit = "none"
  /\ clocks = 0
  /\ fifo_busy = 0
  /\ cpTaken = FALSE
  /\ dpTaken = FALSE
  /\ InitCommon

\* the single execution context always takes its next step
SpecLive == InitLive /\ [][Next]_vars /\ WF_vars(Next)

\* main entered with the take-once flags in any state
InitOwn ==
  /\ InitMain
  /\ cpTaken \in BOOLEAN
  /\ dpTaken \in BOOLEAN

SpecOwn == InitOwn /\ [][Next]_vars

(* ----------------------------- test driver ----------------------------- *)
RECURSIVE SeqsUpTo(_, _)
SeqsUpTo(S, n) ==
  IF n = 0 THEN {<<>>}
  ELSE LET shorter == SeqsUpTo(S, n - 1)
       IN shorter \cup {Append(q, x) : q \in {t \in shorter : Len(t) = n - 1}, x \in S}

\* bring_up(r, f) on the mock register file
T_setup ==
  /\ pc = "T_setup"
  /\ call_swo_setup("T_after")
  /\ UNCHANGED <<envVars, clocks, testVars, ownVars, b, writerVars>>

\* s1 := snapshot(r); bring_up(r, f) once more, then stop
T_after ==
  /\ pc = "T_after"
  /\ IF setups < 2
       THEN /\ snap' = regs
            /\ call_swo_setup("T_after")
       ELSE /\ pc' = "T_done"
            /\ UNCHANGED <<ret, swoVars, setups, snap>>
  /\ UNCHANGED <<envVars, clocks, ownVars, b, writerVars>>

\* write(channel, bytes) against the mock FIFO
T_write ==
  /\ pc = "T_write"
  /\ \E bytes \in SeqsUpTo(ByteVals, MaxLen) : call_write_all(0, bytes, "T_done")
  /\ UNCHANGED <<ret, swoVars, envVars, clocks, setups, testVars, ownVars, b,
                 sent, fifo_busy, fifo_n, fifo_stuck>>

InitTest ==
  /\ \/ /\ pc = "T_setup"
        /\ regs \in RegFiles
        /\ gated \in BOOLEAN
        /\ omit \in {"none"} \cup Blocks
        /\ clocks \in Freqs
        /\ fifo_busy = 0
     \/ /\ pc = "T_write"
        /\ regs = RegFile({}, {}, {})
        /\ gated = FALSE
        /\ omit = "none"
        /\ clocks = 0
        /\ fifo_busy \in 0..MaxFull
  /\ cpTaken = TRUE
  /\ dpTaken = TRUE
  /\ InitCommon

NextTest == T_setup \/ T_after \/ T_write \/ swo_setup \/ write_all \/ halt

SpecTest == InitTest /\ [][NextTest]_vars

(* ------------------------------ properties ----------------------------- *)
\* the number a u32 below 2^31 stands for
RECURSIVE ValueOf(_)
ValueOf(v) == IF v = {} THEN 0
              ELSE LET i == CHOOSE k \in v : TRUE IN Pow2(i) + ValueOf(v \ {i})

\* positions in the log of the writes to register r
WritesTo(r) == {i \in 1..Len(log) : log[i].reg = r}

AllConfigRegs == UNION {ConfigRegs(blk) : blk \in Blocks}

\* C1: in the writes issued by swo_setup, each block's unlock register
\* receives the key 0xC5ACCE55 before any of the block's configuration
\* registers is written, and by the end of swo_setup every configuration
\* register of every block has been written.
C1_UnlockBeforeConfigure ==
  /\ \A blk \in Blocks : \A i \in 1..Len(log) :
       log[i].reg \in ConfigRegs(blk) =>
         \E j \in 1..(i - 1) : log[j].reg = LarOf(blk) /\ log[j].val = ARM_LAR_ACCESS_ENABLE
  /\ pc = "L92" => \A r \in AllConfigRegs : WritesTo(r) # {}

C1_Witness ==
  /\ pc = "L92"
  /\ Len(log) = 14
  /\ log[2].reg = TPIU_LAR
  /\ log[13].reg = DBGMCU_CR

\* the value swo_setup programs into configuration register r, given the
\* register's value before the call
Programmed(r, before) ==
  CASE r = TPIU_CSPSR -> {0}
    [] r = TPIU_ACPR -> divisor
    [] r = TPIU_SPPR -> {0}
    [] r = TPIU_FFCR -> before \ {1}
    [] r = DWT_CTRL -> before \cup (1..9)
    [] r = ITM_TPR -> {0, 1, 2, 3}
    [] r = ITM_TCR -> {0, 2, 3, 4, 16}
    [] r = ITM_TER -> {0}

\* swo_setup has returned from its first call; snap still holds the registers
\* as they were before it
AfterFirstSetup == pc = "T_after" /\ setups = 1

\* C2: on a register file that ignores configuration writes to a locked
\* block, starting with all blocks locked: after swo_setup every
\* configuration register holds its programmed value; and when one block's
\* unlock write is left out, that block's configuration registers are
\* unchanged while the other blocks' registers hold their programmed values.
C2_LockGatedWrites ==
  (AfterFirstSetup /\ gated /\ \A blk \in Blocks : ~Unlocked(snap, blk)) =>
     \A blk \in Blocks : \A r \in ConfigRegs(blk) :
        regs[r] = IF omit = blk THEN snap[r] ELSE Programmed(r, snap[r])

C2_Witness ==
  /\ AfterFirstSetup
  /\ gated
  /\ omit = "ITM"
  /\ \A blk \in Blocks : ~Unlocked(snap, blk)
  /\ regs[ITM_TER] = BitPos
  /\ regs[TPIU_CSPSR] = {0}
  /\ regs[DWT_CTRL] = Mixed \cup (1..9)

\* C3: a second call of swo_setup with the same clock leaves every register
\* as the first call left it.
C3_Idempotent ==
  (pc = "T_done" /\ setups = 2 /\ omit = "none") => regs = snap

C3_Witness ==
  /\ pc = "T_done"
  /\ setups = 2
  /\ omit = "none"
  /\ ~gated
  /\ clocks = 8000000
  /\ regs[TPIU_ACPR] = {0, 1, 2}
  /\ regs[TPIU_FFCR] = BitPos \ {1}

\* C4: for a clock above the baud rate the value written to TPIU_ACPR is
\* the number d with (d + 1) * 1,000,000 <= f < (d + 2) * 1,000,000, that is
\* floor(f / 1,000,000) - 1; a clock of 8,000,000 gives 7.
C4_DivisorExact ==
  \A i \in WritesTo(TPIU_ACPR) :
     clocks > 1000000 =>
       /\ 31 \notin log[i].val
       /\ (ValueOf(log[i].val) + 1) * 1000000 <= clocks
       /\ clocks < (ValueOf(log[i].val) + 2) * 1000000
       /\ clocks = 8000000 => ValueOf(log[i].val) = 7

C4_Witness ==
  /\ clocks = 8000000
  /\ WritesTo(TPIU_ACPR) # {}
  /\ regs[TPIU_ACPR] = {0, 1, 2}

\* a step of write_all that pushes a word
PushStep == Len(pushed') > Len(pushed)

\* a step in which write_all returns to its caller
ReturnStep == pc = "W_loop" /\ pc' = wret

\* C5: a word is pushed only when the poll just before it reported the FIFO
\* ready; with a FIFO that reports full N times and then ready, N + 1 polls
\* precede the push; and when write_all returns, the bytes pushed are the
\* input bytes in order, none dropped or duplicated.
C5_Backpressure ==
  [][ /\ PushStep => (ready /\ polls = fifo_n + 1)
      /\ ReturnStep =>
           /\ Len(Unpack(pushed)) >= Len(winput)
           /\ SubSeq(Unpack(pushed), 1, Len(winput)) = winput ]_vars

C5_Witness ==
  /\ pc = "W_loop"
  /\ wbuf = <<>>
  /\ Len(pushed) = 2
  /\ polls = 3
  /\ ready
  /\ winput = <<1, 255, 0, 1, 255>>

\* C6: a write of L bytes pushes ceil(L / 4) words, the bytes four to a
\* word in order, and the bytes of the last word beyond the input are zero.
C6_Packing ==
  (pc = "W_loop" /\ wbuf = <<>>) =>
     /\ 4 * Len(pushed) >= Len(winput)
     /\ 4 * Len(pushed) < Len(winput) + 4
     /\ \A w \in 1..Len(pushed) : \A k \in 1..4 :
          pushed[w][k] = IF 4 * (w - 1) + k <= Len(winput)
                           THEN winput[4 * (w - 1) + k] ELSE 0

C6_Witness ==
  /\ pc = "W_loop"
  /\ wbuf = <<>>
  /\ winput = <<255, 255, 255, 255, 255>>
  /\ pushed = <<(<<255, 255, 255, 255>>), (<<255, 0, 0, 0>>)>>

\* the RUN state: the loop of main and the writer it calls
InRun == pc \in {"L134", "L135", "L136", "W_loop", "W_poll", "W_push"}

\* C7: swo_setup is called once, it has completed before the first stimulus
\* write, and once in the loop the process stays in the loop and never calls
\* swo_setup again.
C7_InitThenRunForever ==
  /\ [](setups <= 1 /\ (InRun => (setups = 1 /\ Len(log) = 14)))
  /\ [][ /\ InRun => (InRun' /\ setups' = setups)
         /\ Len(sent') > Len(sent) => (InRun /\ setups = 1 /\ Len(log) = 14) ]_vars

C7_Witness ==
  /\ pc = "L136"
  /\ b = 130
  /\ setups = 1
  /\ Len(sent) = 2

\* C8: every word written in an iteration goes to port 0 and consists of the
\* current counter value four times, two words (8 bytes) are written before
\* the counter changes, and the counter then becomes counter + 1, with 0
\* after 255, so that it stays within 0..255.
C8_PayloadAndCounter ==
  /\ [](b \in 0..255 /\ Len(sent) <= 2)
  /\ [](InRun => \A i \in 1..Len(sent) : sent[i] = [port |-> 0, word |-> <<b, b, b, b>>])
  /\ [][ /\ (InRun /\ b' # b) => (pc = "L136" /\ Len(sent) = 2)
         /\ pc = "L136" => b' = IF b = 255 THEN 0 ELSE b + 1 ]_vars

C8_Witness ==
  /\ pc = "L136"
  /\ b = 0
  /\ sent = <<[port |-> 0, word |-> <<0, 0, 0, 0>>], [port |-> 0, word |-> <<0, 0, 0, 0>>]>>

\* C9: each peripheral handle is acquired at most once and never released;
\* an acquisition attempted when the handle is already taken halts the
\* process for good, before any register write of swo_setup and any stimulus
\* write; and main proceeds only holding both handles.
C9_TakeOnce ==
  /\ [](takes[1] <= 1 /\ takes[2] <= 1)
  /\ [](pc \notin {"L103", "L105", "halt"} => (takes = <<1, 1>> /\ cpTaken /\ dpTaken))
  /\ []((pc = "halt" /\ takes # <<1, 1>>) =>
          (setups = 0 /\ log = <<>> /\ sent = <<>> /\ regs = snap))
  /\ [][ /\ (pc = "L103" /\ cpTaken) => pc' = "halt"
         /\ (pc = "L105" /\ dpTaken) => pc' = "halt"
         /\ pc = "halt" => pc' = "halt"
         /\ cpTaken => cpTaken'
         /\ dpTaken => dpTaken' ]_vars

C9_Witness ==
  /\ pc = "halt"
  /\ cpTaken
  /\ takes = <<0, 0>>
  /\ setups = 0

\* C10: after swo_setup ITM_TER has bit 0 set and every other bit clear,
\* whatever it held before.
C10_OnlyChannel0Enabled ==
  (pc \in {"L87", "L88", "L92", "T_after", "T_done"} /\ setups >= 1 /\ omit = "none") =>
     regs[ITM_TER] = {0}

C10_Witness ==
  /\ AfterFirstSetup
  /\ omit = "none"
  /\ snap[ITM_TER] = BitPos
  /\ regs[ITM_TER] = {0}

\* swo_setup has run to its end at least once
SetupDone == pc \in {"L92", "T_after", "T_done"} /\ setups >= 1

\* C11: after swo_setup, whatever DBGMCU_CR held before, its trace-mode
\* field (bits 6 and 7, mask 0xC0) is zero and TRACE_IOEN (bit 5, 0x20) is
\* set; a write with the mode field clear precedes the write that has IOEN
\* and the cleared mode field together.
C11_DbgmcuAsyncIoen ==
  SetupDone =>
    /\ regs[DBGMCU_CR] \cap {6, 7} = {}
    /\ 5 \in regs[DBGMCU_CR]
    /\ \E i, j \in WritesTo(DBGMCU_CR) :
         /\ i < j
         /\ log[i].val \cap {6, 7} = {}
         /\ 5 \in log[j].val
         /\ log[j].val \cap {6, 7} = {}
         /\ regs[DBGMCU_CR] = log[j].val

C11_Witness ==
  /\ AfterFirstSetup
  /\ snap[DBGMCU_CR] = BitPos
  /\ regs[DBGMCU_CR] = BitPos \ {6, 7}

ItmRegs == {ITM_LAR, ITM_TPR, ITM_TCR, ITM_TER}

TraceUnitRegs == {TPIU_LAR, TPIU_CSPSR, TPIU_ACPR, TPIU_SPPR, TPIU_FFCR, DWT_LAR, DWT_CTRL} \cup ItmRegs

\* C14: the first register write of swo_setup is the one to DEMCR and has
\* TRCENA (bit 24) set, so it precedes every write to a TPIU, DWT or ITM
\* register; the writes to DBGMCU_CR are the last two and follow every ITM
\* write.
C14_DemcrFirstDbgmcuLast ==
  /\ Len(log) >= 1 => (log[1].reg = SCS_DEMCR /\ 24 \in log[1].val)
  /\ \A i \in 1..Len(log) : log[i].reg \in TraceUnitRegs => i > 1
  /\ \A i \in WritesTo(DBGMCU_CR) :
       /\ \A j \in 1..Len(log) : log[j].reg \in ItmRegs => j < i
       /\ \A r \in ItmRegs : WritesTo(r) # {}
  /\ pc = "L92" =>
       (Len(log) = 14 /\ WritesTo(DBGMCU_CR) = {13, 14} /\ WritesTo(SCS_DEMCR) = {1})

C14_Witness ==
  /\ pc = "L92"
  /\ log[1].reg = SCS_DEMCR
  /\ log[1].val = {24}
  /\ log[12].reg = ITM_TER
  /\ log[14].reg = DBGMCU_CR

\* the stimulus channels a privilege mask opens to user-level code, each
\* mask bit governing one group of 8 of the 32 channels
UserChannels(tpr) == {ch \in 0..31 : (ch \div 8) \in tpr}

\* C15: after swo_setup ITM_TPR grants user-level access to stimulus
\* channels 0..7 and to no others (the comment of line 79: "User-level
\* access to the first 8 ports").
C15_FirstEightChannelsOnly ==
  (pc = "L92" /\ omit = "none") => UserChannels(regs[ITM_TPR]) = 0..7

\* C16: every stimulus write goes to port 0, and when it is made channel 0
\* is enabled in ITM_TER (bit 0) and the ITM is enabled in ITM_TCR (ITMENA,
\* bit 0).
C16_WritesOnlyToEnabledChannel0 ==
  /\ [](\A i \in 1..Len(sent) : sent[i].port = 0)
  /\ [][ PushStep => (wport = 0 /\ 0 \in regs[ITM_TER] /\ 0 \in regs[ITM_TCR]) ]_vars

C16_Witness ==
  /\ pc = "W_loop"
  /\ Len(sent) = 1
  /\ sent[1].port = 0
  /\ gated
  /\ regs[ITM_TER] = {0}
  /\ 0 \in regs[ITM_TCR]

\* the bits in which two register values differ
Changed(v, w) == (v \ w) \cup (w \ v)

\* C17: swo_setup changes DEMCR at most in bit 24, TPIU_FFCR at most in bit 1,
\* DWT_CTRL at most in bits 1..9 (0x3FE), which end up set, and DBGMCU_CR at
\* most in bits 5..7 (0xE0); and it writes only DEMCR, the three unlock
\* registers, TPIU CSPSR/ACPR/SPPR/FFCR, DWT_CTRL, ITM TPR/TCR/TER and
\* DBGMCU_CR.
C17_FramePreserved ==
  /\ \A i \in 1..Len(log) :
       log[i].reg \in {"SCS_DEMCR", "TPIU_LAR", "DWT_LAR", "ITM_LAR", "TPIU_CSPSR",
                       "TPIU_ACPR", "TPIU_SPPR", "TPIU_FFCR", "DWT_CTRL", "ITM_TPR",
                       "ITM_TCR", "ITM_TER", "DBGMCU_CR"}
  /\ AfterFirstSetup =>
       /\ Changed(regs[SCS_DEMCR], snap[SCS_DEMCR]) \subseteq {24}
       /\ Changed(regs[TPIU_FFCR], snap[TPIU_FFCR]) \subseteq {1}
       /\ Changed(regs[DWT_CTRL], snap[DWT_CTRL]) \subseteq 1..9
       /\ omit = "none" => 1..9 \subseteq regs[DWT_CTRL]
       /\ Changed(regs[DBGMCU_CR], snap[DBGMCU_CR]) \subseteq {5, 6, 7}

C17_Witness ==
  /\ AfterFirstSetup
  /\ omit = "none"
  /\ snap[SCS_DEMCR] = Not32(Mixed)
  /\ Changed(regs[SCS_DEMCR], snap[SCS_DEMCR]) = {24}
  /\ regs[DWT_CTRL] = Not32(Mixed) \cup (1..9)
  /\ regs[TPIU_FFCR] = Not32(Mixed) \ {1}

\* C18: the u32 computation (f / 1,000,000) - 1 gives the exact value, without
\* underflow, whenever f >= 1,000,000 (0 for f = 1,000,000); for f < 1,000,000,
\* f = 0 included, it underflows: the statement either panics, so nothing is
\* written to TPIU_ACPR, or wraps to 0xFFFFFFFF, so what is written is not
\* the mathematical result -1.
C18_UnderflowBelowBaud ==
  /\ [][ pc = "L65" =>
           IF clock_frequency >= 1000000
             THEN /\ pc' = "L67"
                  /\ 31 \notin divisor'
                  /\ ValueOf(divisor') + 1 = clock_frequency \div 1000000
                  /\ clock_frequency = 1000000 => divisor' = {}
             ELSE \/ pc' = "halt" /\ divisor' = divisor
                  \/ pc' = "L67" /\ divisor' = BitPos ]_vars
  /\ [](\A i \in WritesTo(TPIU_ACPR) :
          IF clocks < 1000000 THEN log[i].val = BitPos ELSE 31 \notin log[i].val)

C18_Witness ==
  /\ clocks = 0
  /\ pc = "L92"
  /\ WritesTo(TPIU_ACPR) = {4}
  /\ log[4].val = BitPos
  /\ ~gated
  /\ regs[TPIU_ACPR] = BitPos

\* write_all is waiting on a FIFO that reports full
Spinning == pc = "W_poll" /\ ~is_fifo_ready

\* C12: write_all returns only with all of its bytes pushed; while the FIFO
\* reports full its only step is another poll, which pushes nothing and
\* leaves the loop counter alone; and on a FIFO that stays full for good the
\* writer keeps polling, so no word is pushed and the counter never changes
\* again.
C12_NoPartialWriteNoCancel ==
  [][ /\ ReturnStep => (wbuf = <<>> /\ 4 * Len(pushed) >= Len(winput))
      /\ (pc \in {"W_loop", "W_poll", "W_push"} /\ ~ReturnStep) =>
           pc' \in {"W_loop", "W_poll", "W_push"}
      /\ Spinning => (pc' = "W_poll" /\ pushed' = pushed /\ sent' = sent /\ b' = b)
      /\ (Spinning /\ fifo_stuck) => (Spinning' /\ fifo_stuck')
      /\ fifo_stuck => ~PushStep ]_vars

C12_Witness ==
  /\ Spinning
  /\ fifo_stuck
  /\ polls = 3
  /\ b = 129
  /\ pushed = <<>>
  /\ Len(sent) = 1

\* an iteration of the loop is complete: both words of counter value k are out
Emitted(k) ==
  /\ pc = "L136"
  /\ b = k
  /\ sent = <<[port |-> 0, word |-> <<k, k, k, k>>], [port |-> 0, word |-> <<k, k, k, k>>]>>

\* in a run that stays in the loop with the FIFO ready again and again, the
\* counter values 0, 127, 128 and 255 are each emitted infinitely often
SampledValuesRecur ==
  \A k \in {0, 127, 128, 255} : []<>(InRun /\ is_fifo_ready) => []<>Emitted(k)

\* C13: in a run that is in the loop and whose FIFO reports ready again and
\* again, every write_all call returns and iterations keep completing: each
\* step from line 136 has emitted the current counter value and moves to the
\* next one (0 after 255), and the values 0, 127, 128 and 255 are each
\* emitted infinitely often, so every value of the 8-bit counter is.
C13_LiveUnderDrain ==
  /\ [][ pc = "L136" => (Emitted(b) /\ b' = IF b = 255 THEN 0 ELSE b + 1) ]_vars
  /\ SampledValuesRecur

C13_Witness ==
  /\ Emitted(127)
  /\ ~fifo_stuck
  /\ fifo_n = MaxFull

====
